---- MODULE Spec2Model ----
(***************************************************************************)
(* Model of the blink firmware in src/rust/src/main.rs: fn main() runs a   *)
(* linear start-up (runtime patches, logger, task watchdog, peripherals,   *)
(* GPIO8 as output) and then an endless loop that drives the pin HIGH for  *)
(* 500 ms and LOW for 800 ms.  The single thread of control is modelled by *)
(* a program counter, one action per statement of main.  The results of    *)
(* the platform calls (esp_task_wdt_init, Peripherals::take,               *)
(* PinDriver::output, set_high, set_low) are inputs chosen with \E.        *)
(***************************************************************************)
EXTENDS Integers, Sequences, FiniteSets

\* Number of complete loop cycles whose events are recorded in `trace`.
\* The loop itself runs forever; only the recording stops.
MaxCycles == 3

\* main.rs:13  timeout_ms: 10000
TimeoutMs == 10000
\* main.rs:32  FreeRtos::delay_ms(500)
HighMs == 500
\* main.rs:38  FreeRtos::delay_ms(800)
LowMs == 800

\* Status codes esp_task_wdt_init may return: ESP_OK (0), ESP_FAIL (-1),
\* ESP_ERR_NO_MEM (0x101), ESP_ERR_INVALID_STATE (0x103).
WdtResults == {0, -1, 257, 259}

VARIABLES
    pc,          \* position of the thread in main
    patched,     \* link_patches() has run
    logger,      \* EspLogger::initialize_default() has run
    result,      \* the local `result` of esp_task_wdt_init
    wdtArmed,    \* the task watchdog was registered by this program
    wdtElapsed,  \* ms since the watchdog countdown was last reset
    taken,       \* the Peripherals singleton is owned by main
    led,         \* the PinDriver for gpio8 exists
    level,       \* electrical level of pin 8
    callRes,     \* outcome of the level-set call being handled
    cycles,      \* completed loop iterations (stops counting at MaxCycles)
    trace        \* history of the calls made, in program order

vars == <<pc, patched, logger, result, wdtArmed, wdtElapsed, taken, led,
          level, callRes, cycles, trace>>

StartupPcs == {"link_patches", "logger_init", "wdt_init", "warn", "take",
               "output", "info_flashing"}
LoopPcs == {"set_high", "error_high", "delay_high", "set_low", "error_low",
            "info_hello", "delay_low"}
Pcs == StartupPcs \cup LoopPcs \cup {"aborted", "wdt_panic"}

Levels == {"UNDEF", "HIGH", "LOW"}

\* One recorded call: its name, its outcome, and for a delay the requested
\* milliseconds and the pin level held during it.
Ev(name, res, ms, lvl) == [ev |-> name, res |-> res, ms |-> ms, level |-> lvl]
Call(name) == Ev(name, "ok", 0, "-")

Recording == cycles < MaxCycles
Record(e) == IF Recording THEN Append(trace, e) ELSE trace

Init ==
    /\ pc = "link_patches"
    /\ patched = FALSE
    /\ logger = FALSE
    /\ result = 0
    /\ wdtArmed = FALSE
    /\ wdtElapsed = 0
    /\ taken = FALSE
    /\ led = FALSE
    /\ level = "UNDEF"
    /\ callRes = "none"
    /\ cycles = 0
    /\ trace = <<>>

\* main.rs:7  esp_idf_svc::sys::link_patches();
LinkPatches ==
    /\ pc = "link_patches"
    /\ patched' = TRUE
    /\ trace' = Record(Call("link_patches"))
    /\ pc' = "logger_init"
    /\ UNCHANGED <<logger, result, wdtArmed, wdtElapsed, taken, led, level,
                   callRes, cycles>>

\* main.rs:8  EspLogger::initialize_default();
InitializeDefault ==
    /\ pc = "logger_init"
    /\ logger' = TRUE
    /\ trace' = Record(Call("logger_init"))
    /\ pc' = "wdt_init"
    /\ UNCHANGED <<patched, result, wdtArmed, wdtElapsed, taken, led, level,
                   callRes, cycles>>

\* Mutant of AfterWdtInit: a nonzero status is treated as fatal.
AfterWdtInitFatal(r) == IF r # 0 THEN "aborted" ELSE "take"

\* Where main goes after esp_task_wdt_init returned r (main.rs:18).
AfterWdtInit(r) == IF r # 0 THEN "warn" ELSE "take"

\* main.rs:12-18  let result = esp_task_wdt_init(&config); if result != 0
EspTaskWdtInit ==
    /\ pc = "wdt_init"
    /\ \E r \in WdtResults :
        /\ result' = r
        /\ wdtArmed' = (r = 0)
        /\ trace' = Record(Ev("wdt_init", IF r = 0 THEN "ok" ELSE "err",
                              TimeoutMs, "-"))
        /\ pc' = AfterWdtInit(r)
    /\ wdtElapsed' = 0
    /\ UNCHANGED <<patched, logger, taken, led, level, callRes, cycles>>

\* main.rs:19  log::warn!("Failed to initialize watchdog timer: {}", result);
LogWarn ==
    /\ pc = "warn"
    /\ trace' = Record(Call("warn"))
    /\ pc' = "take"
    /\ UNCHANGED <<patched, logger, result, wdtArmed, wdtElapsed, taken, led,
                   level, callRes, cycles>>

\* Mutant of Unwrap: the error is ignored and main goes on.
UnwrapIgnored(ok, next) == next

\* Where main goes after a start-up call wrapped in .unwrap() (main.rs:24-25).
Unwrap(ok, next) == IF ok THEN next ELSE "aborted"

\* main.rs:24  let peripherals = Peripherals::take().unwrap();
PeripheralsTake ==
    /\ pc = "take"
    /\ \E ok \in BOOLEAN :
        /\ taken' = ok
        /\ trace' = Record(Ev("take", IF ok THEN "ok" ELSE "err", 0, "-"))
        /\ pc' = Unwrap(ok, "output")
    /\ UNCHANGED <<patched, logger, result, wdtArmed, wdtElapsed, led, level,
                   callRes, cycles>>

\* main.rs:25  let mut led = PinDriver::output(peripherals.pins.gpio8).unwrap();
PinDriverOutput ==
    /\ pc = "output"
    /\ \E ok \in BOOLEAN :
        /\ led' = ok
        /\ trace' = Record(Ev("output", IF ok THEN "ok" ELSE "err", 0, "-"))
        /\ pc' = Unwrap(ok, "info_flashing")
    /\ UNCHANGED <<patched, logger, result, wdtArmed, wdtElapsed, taken, level,
                   callRes, cycles>>

\* main.rs:27  log::info!("Flashing LED on pin 8");
LogInfoFlashing ==
    /\ pc = "info_flashing"
    /\ trace' = Record(Call("info_flashing"))
    /\ pc' = "set_high"
    /\ UNCHANGED <<patched, logger, result, wdtArmed, wdtElapsed, taken, led,
                   level, callRes, cycles>>

\* Mutant of LevelAfter: every successful call drives the pin HIGH.
LevelAfterStuckHigh(cmd, ok, lvl) == IF ~ok THEN lvl ELSE "HIGH"

\* Pin level after a level-set call: gpio_set_level drives the pin only when
\* the call succeeds; a failed call leaves the level as it was.
LevelAfter(cmd, ok, lvl) ==
    IF ~ok THEN lvl ELSE IF cmd = "set_high" THEN "HIGH" ELSE "LOW"

\* Mutant of AfterSetHigh: the error of set_high is dropped without a log line.
AfterSetHighSilent(ok) == "delay_high"

\* main.rs:29-31  if let Err(e) = led.set_high() { log::error!(...) }
AfterSetHigh(ok) == IF ok THEN "delay_high" ELSE "error_high"

\* main.rs:29  led.set_high()
SetHigh ==
    /\ pc = "set_high"
    /\ \E ok \in BOOLEAN :
        /\ level' = LevelAfter("set_high", ok, level)
        /\ callRes' = IF ok THEN "ok" ELSE "err"
        /\ trace' = Record(Ev("set_high", IF ok THEN "ok" ELSE "err", 0, "-"))
        /\ pc' = AfterSetHigh(ok)
    /\ UNCHANGED <<patched, logger, result, wdtArmed, wdtElapsed, taken, led,
                   cycles>>

\* Mutant of AfterErrorHigh: the failed call is retried.
AfterErrorHighRetry == "set_high"

\* main.rs:31-32  the end of the if-let block falls through to the delay
AfterErrorHigh == "delay_high"

\* main.rs:30  log::error!("Failed to set LED high: {:?}", e);
LogErrorHigh ==
    /\ pc = "error_high"
    /\ trace' = Record(Call("error_high"))
    /\ pc' = AfterErrorHigh
    /\ UNCHANGED <<patched, logger, result, wdtArmed, wdtElapsed, taken, led,
                   level, callRes, cycles>>

\* Mutant of Hold: no hold after a failed call.
HoldSkippedOnError(cmd, res) ==
    IF res = "err" THEN 0 ELSE IF cmd = "set_high" THEN HighMs ELSE LowMs

\* main.rs:32, 38  the milliseconds requested after a level-set call; the
\* argument is a literal, whatever the call returned.
Hold(cmd, res) == IF cmd = "set_high" THEN HighMs ELSE LowMs

\* Mutant of WdtAfterDelay: a delay that does not reset the countdown.
WdtAfterDelayNoReset(elapsed, ms) ==
    IF elapsed + ms >= TimeoutMs THEN TimeoutMs ELSE elapsed + ms

\* main.rs:32, 38  "Use FreeRtos delay which handles watchdog timers": the
\* blocked task lets the idle task run, which resets the countdown; the time
\* since that reset is at most the hold itself.
WdtAfterDelay(elapsed, ms) == ms

\* Task watchdog (main.rs:13-15): with trigger_panic the device panics once
\* an armed countdown reaches timeout_ms.
WdtCheck(elapsed, next) ==
    IF wdtArmed /\ elapsed >= TimeoutMs THEN "wdt_panic" ELSE next

\* main.rs:32  FreeRtos::delay_ms(500);
DelayHigh ==
    /\ pc = "delay_high"
    /\ LET ms == Hold("set_high", callRes)
           e == WdtAfterDelay(wdtElapsed, ms)
       IN /\ wdtElapsed' = e
          /\ trace' = Record(Ev("delay", "ok", ms, level))
          /\ pc' = WdtCheck(e, "set_low")
    /\ UNCHANGED <<patched, logger, result, wdtArmed, taken, led, level,
                   callRes, cycles>>

\* Mutant of AfterSetLow: the "alive" line is skipped when the call succeeds.
AfterSetLowNoHello(ok) == IF ok THEN "delay_low" ELSE "error_low"

\* main.rs:34-37  if let Err(e) = led.set_low() { log::error!(...) }
AfterSetLow(ok) == IF ok THEN "info_hello" ELSE "error_low"

\* main.rs:34  led.set_low()
SetLow ==
    /\ pc = "set_low"
    /\ \E ok \in BOOLEAN :
        /\ level' = LevelAfter("set_low", ok, level)
        /\ callRes' = IF ok THEN "ok" ELSE "err"
        /\ trace' = Record(Ev("set_low", IF ok THEN "ok" ELSE "err", 0, "-"))
        /\ pc' = AfterSetLow(ok)
    /\ UNCHANGED <<patched, logger, result, wdtArmed, wdtElapsed, taken, led,
                   cycles>>

\* main.rs:35  log::error!("Failed to set LED low: {:?}", e);
LogErrorLow ==
    /\ pc = "error_low"
    /\ trace' = Record(Call("error_low"))
    /\ pc' = "info_hello"
    /\ UNCHANGED <<patched, logger, result, wdtArmed, wdtElapsed, taken, led,
                   level, callRes, cycles>>

\* main.rs:37  log::info!("Hehhhhhhhhhhllo, world!");
LogInfoHello ==
    /\ pc = "info_hello"
    /\ trace' = Record(Call("info_hello"))
    /\ pc' = "delay_low"
    /\ UNCHANGED <<patched, logger, result, wdtArmed, wdtElapsed, taken, led,
                   level, callRes, cycles>>

\* Mutant of LoopBack: the body runs once and main returns.
LoopExits == "aborted"

\* Mutant of LoopBack: every iteration acquires the peripherals again.
LoopBackReacquire == "take"

\* main.rs:28, 39  loop { ... }: the end of the body jumps back to its start
LoopBack == "set_high"

\* main.rs:38-39  FreeRtos::delay_ms(800); then the next iteration
DelayLow ==
    /\ pc = "delay_low"
    /\ LET ms == Hold("set_low", callRes)
           e == WdtAfterDelay(wdtElapsed, ms)
       IN /\ wdtElapsed' = e
          /\ trace' = Record(Ev("delay", "ok", ms, level))
          /\ pc' = WdtCheck(e, LoopBack)
    /\ cycles' = IF Recording THEN cycles + 1 ELSE cycles
    /\ UNCHANGED <<patched, logger, result, wdtArmed, taken, led, level,
                   callRes>>

Next ==
    \/ LinkPatches
    \/ InitializeDefault
    \/ EspTaskWdtInit
    \/ LogWarn
    \/ PeripheralsTake
    \/ PinDriverOutput
    \/ LogInfoFlashing
    \/ SetHigh
    \/ LogErrorHigh
    \/ DelayHigh
    \/ SetLow
    \/ LogErrorLow
    \/ LogInfoHello
    \/ DelayLow

Spec == Init /\ [][Next]_vars

\* main is the only task of the program and every call it makes returns, so
\* the thread always takes its next step.
FairSpec == Spec /\ WF_vars(Next)

TypeOK ==
    /\ pc \in Pcs
    /\ patched \in BOOLEAN /\ logger \in BOOLEAN
    /\ result \in WdtResults
    /\ wdtArmed \in BOOLEAN
    /\ wdtElapsed \in 0..TimeoutMs
    /\ taken \in BOOLEAN /\ led \in BOOLEAN
    /\ level \in Levels
    /\ callRes \in {"none", "ok", "err"}
    /\ cycles \in 0..MaxCycles

(***************************************************************************)
(* Views of the recorded history used by the properties below.             *)
(***************************************************************************)
IsSet(e) == e.ev \in {"set_high", "set_low"}
IsError(e) == e.ev \in {"error_high", "error_low"}
IsDelay(e) == e.ev = "delay"

\* The level-set calls issued, in order.
Cmds == SelectSeq(trace, IsSet)
\* The delays requested, in order, each with the pin level held during it.
Holds == SelectSeq(trace, IsDelay)
\* How many times the call `name` was made.
CountEv(name) == Cardinality({i \in 1..Len(trace) : trace[i].ev = name})
Failed == {i \in 1..Len(trace) : IsSet(trace[i]) /\ trace[i].res = "err"}
NoSetFailed == Failed = {}
InLoop == pc \in LoopPcs

RECURSIVE SumMs(_)
SumMs(seq) == IF seq = <<>> THEN 0 ELSE Head(seq).ms + SumMs(Tail(seq))

\* C1: in every run in which no level-set call has failed, the pin level
\* held during successive phases alternates HIGH, LOW, HIGH, LOW, ...,
\* starting with HIGH, so no two consecutive phases hold the same level.
C1_LevelsAlternate ==
    NoSetFailed =>
        /\ \A i \in 1..Len(Holds) :
              Holds[i].level = IF i % 2 = 1 THEN "HIGH" ELSE "LOW"
        /\ \A i \in 1..(Len(Holds) - 1) : Holds[i].level # Holds[i + 1].level
        /\ (Recording /\ Cmds # <<>>) =>
              level = IF Len(Cmds) % 2 = 1 THEN "HIGH" ELSE "LOW"

C1_Witness == NoSetFailed /\ Len(Holds) >= 4 /\ pc = "set_high"

\* C2: a nonzero status of esp_task_wdt_init logs one warning, right after
\* the call and never again, and main goes on to pin acquisition; a zero
\* status logs none.  Whether the loop is entered is decided by the two
\* acquisition calls alone: past start-up main is in the loop exactly when
\* both succeeded, whatever the watchdog status was.
C2_WarnOnceAndContinue ==
    /\ CountEv("warn") = IF result # 0 /\ pc \notin {"wdt_init", "warn"}
                            THEN 1 ELSE 0
    /\ \A i \in 1..Len(trace) :
          trace[i].ev = "warn" =>
              i > 1 /\ trace[i - 1].ev = "wdt_init" /\ trace[i - 1].res = "err"
    /\ pc = "warn" => result # 0 /\ ~wdtArmed
    /\ pc \in {"wdt_init", "warn"} => ENABLED Next
    /\ pc \notin StartupPcs => (InLoop <=> (taken /\ led))
    /\ pc = "aborted" => ~(taken /\ led)

C2_Witness == result # 0 /\ CountEv("warn") = 1 /\ InLoop /\ cycles >= 1

AcquisitionFailed ==
    \E i \in 1..Len(trace) :
        trace[i].ev \in {"take", "output"} /\ trace[i].res = "err"

\* C4: when Peripherals::take or PinDriver::output fails, main has aborted
\* before the loop: no level-set call, no delay, no "Flashing LED" line and
\* no per-cycle line has happened, and the aborted state has no successor.
C4_AbortBeforeLoop ==
    AcquisitionFailed =>
        /\ pc = "aborted"
        /\ ~ENABLED Next
        /\ CountEv("set_high") = 0 /\ CountEv("set_low") = 0
        /\ CountEv("delay") = 0
        /\ CountEv("info_flashing") = 0 /\ CountEv("info_hello") = 0
        /\ level = "UNDEF"

C4_Witness == AcquisitionFailed /\ pc = "aborted" /\ taken /\ ~led

\* C6: with the watchdog registered (timeout 10000 ms) and every delay
\* resetting the countdown, the time since the last reset never exceeds one
\* hold (800 ms), never reaches the timeout, and the watchdog never fires.
C6_WatchdogNeverExpires ==
    /\ pc # "wdt_panic"
    /\ wdtArmed => wdtElapsed < TimeoutMs /\ wdtElapsed <= LowMs

C6_Witness ==
    wdtArmed /\ pc = "set_high" /\ cycles = MaxCycles /\ wdtElapsed = LowMs

\* The level-set call that precedes position i of the history.
RECURSIVE LastCmdBefore(_)
LastCmdBefore(i) ==
    IF i <= 1 THEN "none"
    ELSE IF IsSet(trace[i - 1]) THEN trace[i - 1].ev ELSE LastCmdBefore(i - 1)

\* C7: every hold after set_high asks for 500 ms and every hold after
\* set_low for 800 ms, whatever the level-set calls and the watchdog
\* registration returned; n complete cycles have asked for n * 1300 ms.
C7_HoldsFixed ==
    /\ \A i \in 1..Len(trace) :
          IsDelay(trace[i]) =>
              /\ LastCmdBefore(i) = "set_high" => trace[i].ms = 500
              /\ LastCmdBefore(i) = "set_low" => trace[i].ms = 800
              /\ LastCmdBefore(i) # "none"
    /\ pc = "set_high" => SumMs(Holds) = 1300 * cycles

C7_Witness ==
    pc = "set_high" /\ cycles >= 2 /\ Cardinality(Failed) >= 2 /\ result # 0

\* The start-up calls in program order; the warning only after a nonzero
\* watchdog status.
StartupNames ==
    <<"link_patches", "logger_init", "wdt_init">>
    \o (IF result # 0 THEN <<"warn">> ELSE <<>>)
    \o <<"take", "output", "info_flashing">>

LoopNames == {"set_high", "error_high", "delay", "set_low", "error_low",
              "info_hello"}

B(cond) == IF cond /\ Recording THEN 1 ELSE 0

\* C9: each cycle makes exactly one set_high and one set_low call and logs
\* exactly one "alive" line, after the set_low call (and its error line, if
\* any) and right before the 800 ms hold; error lines are as many as failed
\* calls.  So after n cycles: 2n level-set calls, n alive lines, <= 2n errors.
C9_PerCycleCounts ==
    /\ CountEv("set_high") =
          cycles + B(pc \in LoopPcs \ {"set_high"})
    /\ CountEv("set_low") =
          cycles + B(pc \in {"error_low", "info_hello", "delay_low"})
    /\ CountEv("info_hello") = cycles + B(pc = "delay_low")
    /\ CountEv("error_high") + CountEv("error_low") =
          Cardinality(Failed) - B(pc \in {"error_high", "error_low"})
    /\ \A i \in 1..Len(trace) :
          trace[i].ev = "info_hello" =>
              /\ \/ trace[i - 1].ev = "set_low" /\ trace[i - 1].res = "ok"
                 \/ trace[i - 1].ev = "error_low"
              /\ i < Len(trace) =>
                    trace[i + 1].ev = "delay" /\ trace[i + 1].ms = LowMs
    /\ pc = "set_high" =>
          /\ Len(Cmds) = 2 * cycles
          /\ CountEv("info_hello") = cycles
          /\ CountEv("error_high") + CountEv("error_low") <= 2 * cycles

C9_Witness ==
    /\ pc = "set_high" /\ cycles = 2
    /\ CountEv("error_high") + CountEv("error_low") = 1

\* C10: the level-set calls issued alternate set_high, set_low, set_high,
\* ..., starting with set_high, whatever the calls returned: a failed call
\* is not retried and the same call is never issued twice in a row.
C10_CommandsAlternate ==
    \A i \in 1..Len(Cmds) :
        Cmds[i].ev = IF i % 2 = 1 THEN "set_high" ELSE "set_low"

C10_Witness ==
    /\ Len(Cmds) >= 4
    /\ \E i \in 1..Len(Cmds) : Cmds[i].res = "err" /\ i < Len(Cmds)

\* What the history shows after the level-set call at position i: an error
\* line exactly when the call failed, then the hold of that phase, then the
\* opposite level-set call (each as far as the history reaches).
At(i, name) == i > Len(trace) \/ trace[i].ev = name
HoldAt(i, ms) == i > Len(trace) \/ (trace[i].ev = "delay" /\ trace[i].ms = ms)

FollowedThrough(i) ==
    LET e == trace[i]
        k == IF e.res = "err" THEN i + 1 ELSE i
    IN  IF e.ev = "set_high"
          THEN /\ e.res = "err" => At(i + 1, "error_high")
               /\ HoldAt(k + 1, 500)
               /\ At(k + 2, "set_low")
          ELSE /\ e.res = "err" => At(i + 1, "error_low")
               /\ At(k + 1, "info_hello")
               /\ HoldAt(k + 2, 800)
               /\ At(k + 3, "set_high")

C3_ErrorLogged ==
    /\ \A i \in 1..Len(trace) : IsSet(trace[i]) => FollowedThrough(i)
    /\ \A i \in 1..Len(trace) :
          IsError(trace[i]) =>
              /\ trace[i - 1].res = "err"
              /\ trace[i - 1].ev =
                    IF trace[i].ev = "error_high" THEN "set_high" ELSE "set_low"
    /\ pc \in {"error_high", "error_low"} => callRes = "err"
    /\ (Recording /\ pc = "error_high") =>
          trace[Len(trace)].ev = "set_high" /\ trace[Len(trace)].res = "err"
    /\ (Recording /\ pc = "error_low") =>
          trace[Len(trace)].ev = "set_low" /\ trace[Len(trace)].res = "err"

\* C3: a failed level-set call logs exactly one error line for that call (a
\* successful one logs none); the hold of that phase (500 ms after set_high,
\* 800 ms after set_low) and the next, opposite level-set call still follow,
\* and under fairness they do happen: a failure never stops or skips a step.
C3_FailureLoggedLoopContinues ==
    /\ []C3_ErrorLogged
    /\ (pc = "error_high") ~> (pc = "set_low")
    /\ (pc = "set_low") ~> (pc \in {"error_low", "info_hello"})
    /\ (pc = "error_low") ~> (pc = "set_high")
    /\ (pc = "set_high") ~> (pc \in {"error_high", "delay_high"})

C3_Witness ==
    \E i \in Failed :
        /\ trace[i].ev = "set_high"
        /\ Len(trace) >= i + 3
        /\ trace[i + 3].ev = "set_low" /\ trace[i + 3].res = "err"
        /\ Len(trace) >= i + 7

\* main has just returned from led.set_high() / led.set_low().
HighAttempted == pc \in {"error_high", "delay_high"}
LowAttempted == pc \in {"error_low", "info_hello"}

\* C5: once in the loop main stays in it: no state of the loop is terminal,
\* no step leaves the loop, and under fairness of the single thread set_high
\* and set_low are attempted again and again, whatever the calls returned.
C5_LoopNeverTerminates ==
    /\ [](InLoop => ENABLED Next)
    /\ [][InLoop => InLoop']_vars
    /\ [](InLoop => ([]<>HighAttempted /\ []<>LowAttempted))

C5_Witness ==
    /\ pc = "set_high" /\ cycles = MaxCycles
    /\ Failed # {} /\ result # 0

====
